---- MODULE Spec2Model ----
(***************************************************************************)
(* Model of the lead-generation pipeline of ai_lead_generation_agent.py:   *)
(* the "Generate Leads" handler of main() and the functions it calls       *)
(* (transform_with_gemini, search_for_urls, extract_user_info_from_urls,   *)
(* format_user_info_to_flattened_json, write_to_google_sheets_via_composio)*)
(* with the hosted services as nondeterministic environments.              *)
(*                                                                         *)
(* Text is a sequence of one-character strings; keys, URLs and field       *)
(* values that the code only copies are TLA+ strings.                      *)
(***************************************************************************)
EXTENDS Integers, Sequences, FiniteSets, TLC

(* ------------------------------ bounds --------------------------------- *)
\* distinct Gemini keys the user may type
MaxKeys == 2
\* transform_with_gemini calls recorded per session (until Reset)
MaxCalls == 3
\* the model's answer has at most MaxShortTokens + MaxExtraWords words
MaxExtraWords == 1
\* largest value of the "Number of links" input the model tries
MaxLinks == 2
\* most result items a search response carries
MaxResults == 2
\* most interactions one extraction response carries
MaxInteractions == 2
\* deepest nesting of the mapping sought in an integration result
MaxDepth == 2

(* ------------------------- program constants --------------------------- *)
\* len(text.split()) > 8  /  text.split()[:8]
MaxShortTokens == 8
\* if response.status_code == 200
HTTP_OK == 200
\* for i in range(1, 4): GEMINI_API_KEY_1 .. GEMINI_API_KEY_3
NumIndexedSecrets == 3

(* --------------------------- text helpers ------------------------------ *)
Alphabet == <<"a", "b", "c", "d", "e", "f", "g", "h", "i", "j", "k", "l", "m",
              "n", "o", "p", "q", "r", "s", "t", "u", "v", "w", "x", "y", "z">>

SetMin(S) == CHOOSE x \in S : \A y \in S : x <= y
SetMax(S) == CHOOSE x \in S : \A y \in S : y <= x

\* The characters below U+0020 and those of U+007F..U+00FF, in code point
\* order: Controls[n] is U+000n, High[n] is the character of code 126 + n.
Controls ==
    <<"", "", "", "", "", "", "", "", "\t", "\n", "", "\f", "\r", "", "", "",
      "", "", "", "", "", "", "", "", "", "", "", "", "", "", "">>
High ==
    <<"", "", "", "", "", "", "", "", "", "", "", "", "", "", "", "",
      "", "", "", "", "", "", "", "", "", "", "", "", "", "", "", "",
      "", " ", "¡", "¢", "£", "¤", "¥", "¦", "§", "¨", "©", "ª", "«", "¬", "­", "®",
      "¯", "°", "±", "²", "³", "´", "µ", "¶", "·", "¸", "¹", "º", "»", "¼", "½", "¾",
      "¿", "À", "Á", "Â", "Ã", "Ä", "Å", "Æ", "Ç", "È", "É", "Ê", "Ë", "Ì", "Í", "Î",
      "Ï", "Ð", "Ñ", "Ò", "Ó", "Ô", "Õ", "Ö", "×", "Ø", "Ù", "Ú", "Û", "Ü", "Ý", "Þ",
      "ß", "à", "á", "â", "ã", "ä", "å", "æ", "ç", "è", "é", "ê", "ë", "ì", "í", "î",
      "ï", "ð", "ñ", "ò", "ó", "ô", "õ", "ö", "÷", "ø", "ù", "ú", "û", "ü", "ý", "þ",
      "ÿ">>
\* three characters beyond U+00FF with their code points: U+1680, U+20AC, U+FEFF
OghamSpace == " "
Beyond == <<OghamSpace, "€", "﻿">>
BeyondCodes == <<5760, 8364, 65279>>

\* the characters outside U+0020..U+007E that the texts of the model may hold
NonPrintable ==
    {Controls[n] : n \in 1..Len(Controls)} \cup {High[n] : n \in 1..Len(High)}
    \cup {Beyond[n] : n \in 1..Len(Beyond)}

\* the code point of a character outside U+0020..U+007E; 0 for the others
CodePoint(c) ==
    LET InControls == {n \in 1..Len(Controls) : Controls[n] = c}
        InHigh     == {n \in 1..Len(High) : High[n] = c}
        InBeyond   == {n \in 1..Len(Beyond) : Beyond[n] = c}
    IN  IF InControls # {} THEN SetMin(InControls)
        ELSE IF InHigh # {} THEN 126 + SetMin(InHigh)
        ELSE IF InBeyond # {} THEN BeyondCodes[SetMin(InBeyond)]
        ELSE 0

BS == Controls[8]
VT == Controls[11]
FS == Controls[28]
GS == Controls[29]
RS == Controls[30]
US == Controls[31]
NEL == High[7]
NBSP == High[34]
\* The characters str.split(), str.strip() and the regex class \s treat as
\* whitespace. (U+2000..U+200A, U+2028, U+2029, U+202F, U+205F and U+3000
\* count too but cannot be written in a string of this language: the texts
\* of the model do not hold them.)
Whitespace == {" ", "\t", "\n", "\r", "\f", VT, FS, GS, RS, US, NEL, NBSP, OghamSpace}

\* str.strip(): drop leading and trailing whitespace
Strip(s) ==
    LET keep == {i \in 1..Len(s) : s[i] \notin Whitespace}
    IN  IF keep = {} THEN <<>> ELSE SubSeq(s, SetMin(keep), SetMax(keep))

\* str.split(): the maximal runs of non-whitespace characters, in order
SplitWhitespace(s) ==
    LET F[i \in 0..Len(s)] ==
          IF i = 0 THEN [toks |-> <<>>, cur |-> <<>>]
          ELSE LET p == F[i - 1]
               IN  IF s[i] \in Whitespace
                   THEN IF p.cur = <<>> THEN p
                        ELSE [toks |-> Append(p.toks, p.cur), cur |-> <<>>]
                   ELSE [toks |-> p.toks, cur |-> Append(p.cur, s[i])]
        last == F[Len(s)]
    IN  IF last.cur = <<>> THEN last.toks ELSE Append(last.toks, last.cur)

\* str.split(","): the parts between separators, empty parts kept
SplitOn(s, sep) ==
    LET F[i \in 0..Len(s)] ==
          IF i = 0 THEN << <<>> >>
          ELSE LET p == F[i - 1]
               IN  IF s[i] = sep THEN Append(p, <<>>)
                   ELSE [p EXCEPT ![Len(p)] = Append(@, s[i])]
    IN  F[Len(s)]

\* sep.join(parts)
RECURSIVE JoinWith(_, _)
JoinWith(parts, sep) ==
    IF parts = <<>> THEN <<>>
    ELSE IF Len(parts) = 1 THEN parts[1]
    ELSE parts[1] \o sep \o JoinWith(Tail(parts), sep)

\* seq[:n]
Take(seq, n) == SubSeq(seq, 1, IF n < Len(seq) THEN n ELSE Len(seq))

Max2(a, b) == IF a > b THEN a ELSE b

(* ------------------------ _parse_gemini_keys --------------------------- *)
\* a key is a text; Key(i) is the i-th distinct key of the model
Key(i) == <<Alphabet[i]>>

\* [p.strip() for p in raw.split(",")] followed by [p for p in parts if p]
RECURSIVE StripNonEmpty(_)
StripNonEmpty(parts) ==
    IF parts = <<>> THEN <<>>
    ELSE LET p == Strip(Head(parts))
         IN  (IF p = <<>> THEN <<>> ELSE <<p>>) \o StripNonEmpty(Tail(parts))

\* if raw: keys.extend(non-empty stripped parts of raw.split(","))
KeysOfRaw(raw) == IF raw = <<>> THEN <<>> ELSE StripNonEmpty(SplitOn(raw, ","))

\* for i in range(1, 4): v = get_secret(...); if v: keys.append(v)
RECURSIVE NonEmptyOnly(_)
NonEmptyOnly(vals) ==
    IF vals = <<>> THEN <<>>
    ELSE (IF Head(vals) = <<>> THEN <<>> ELSE <<Head(vals)>>) \o NonEmptyOnly(Tail(vals))

\* deduplicate while preserving order
RECURSIVE Dedup(_, _)
Dedup(keys, seen) ==
    IF keys = <<>> THEN <<>>
    ELSE IF Head(keys) \in seen THEN Dedup(Tail(keys), seen)
    ELSE <<Head(keys)>> \o Dedup(Tail(keys), seen \cup {Head(keys)})

\* sec.keys_raw is the secret GEMINI_API_KEYS, sec.indexed the secrets
\* GEMINI_API_KEY_1..3 (an unset secret is the empty text)
parse_gemini_keys(raw, sec) ==
    Dedup(KeysOfRaw(raw) \o KeysOfRaw(sec.keys_raw) \o NonEmptyOnly(sec.indexed), {})

(* ----------------------- transform_with_gemini ------------------------- *)
\* idx = st.session_state[idx_key] % len(api_keys)
KeyIndex(cursor, n) == cursor % n

\* the cursor update with the increment forgotten
CursorNotAdvanced(cursor, n) == cursor % Max2(1, n)

\* st.session_state[idx_key] = (st.session_state[idx_key] + 1) % max(1, len(api_keys))
AdvanceCursor(cursor, n) == (cursor + 1) % Max2(1, n)

\* the post-processing with the cut forgotten
ShortenResponseUncut(text) == Strip(text)

\* text = (resp.text or "").strip(); cut to the first 8 tokens when longer
ShortenResponse(text) ==
    LET t == Strip(text)
    IN  IF Len(SplitWhitespace(t)) > MaxShortTokens
        THEN JoinWith(Take(SplitWhitespace(t), MaxShortTokens), <<" ">>)
        ELSE t

\* the session's cursor, 0 when session_state has no such entry yet
CursorOf(ss) == IF "gemini_key_index" \in DOMAIN ss THEN ss["gemini_key_index"] ELSE 0

NoSession == [k \in {} |-> 0]

\* One call of transform_with_gemini: ss is st.session_state, out what the
\* language model does on generate_content (kind "raise", "notext" or "text").
\* exc is the exception the call ends with, calls the model requests made.
transform_with_gemini(ss, api_keys, out) ==
    IF api_keys = <<>>
    THEN [exc |-> "ValueError", ss |-> ss, key |-> <<>>, calls |-> 0, text |-> <<>>]
    ELSE LET n   == Len(api_keys)
             idx == KeyIndex(CursorOf(ss), n)
             ss2 == [k \in {"gemini_key_index"} |-> AdvanceCursor(CursorOf(ss), n)]
         IN  IF out.kind = "raise"
             THEN [exc |-> "model", ss |-> ss2, key |-> api_keys[idx + 1],
                   calls |-> 1, text |-> <<>>]
             ELSE [exc |-> "none", ss |-> ss2, key |-> api_keys[idx + 1], calls |-> 1,
                   text |-> ShortenResponse(IF out.kind = "text" THEN out.text ELSE <<>>)]

(* ---------------------- inputs of the first stage ---------------------- *)
\* "a,b,..." for the first k keys
RawTight(k) == JoinWith([i \in 1..k |-> Key(i)], <<",">>)
\* " <last>\r,, a,b,...\f" : padding, an empty part and a repeated key
RawMessy(k) == <<" ">> \o Key(k) \o <<"\r", ",", ",", " ">> \o RawTight(k) \o <<"\f">>
RawKeyInputs == {<<>>, RawTight(MaxKeys), RawMessy(MaxKeys)}

NoSecrets == [keys_raw |-> <<>>, indexed |-> [i \in 1..NumIndexedSecrets |-> <<>>]]
SecretInputs ==
    {NoSecrets, [NoSecrets EXCEPT !.indexed = [i \in 1..NumIndexedSecrets |->
                                                IF i = 2 THEN Key(1) ELSE <<>>]]}

\* the model's answers: n words "wa wb ...", tight or with extra whitespace
Words(n) == [i \in 1..n |-> <<"w", Alphabet[i]>>]
TextTight(n) == JoinWith(Words(n), <<" ">>)
TextWide(n) == <<"\n", NBSP>> \o JoinWith(Words(n), <<"\r", VT>>) \o <<"\f", " ">>
WordCounts == {0} \cup (MaxShortTokens .. (MaxShortTokens + MaxExtraWords))
LlmOutcomes ==
    {[kind |-> "raise", text |-> <<>>], [kind |-> "notext", text |-> <<>>]}
    \cup {[kind |-> "text", text |-> TextTight(n)] : n \in WordCounts}
    \cup {[kind |-> "text", text |-> TextWide(n)] : n \in WordCounts}

(* --------------------------- search_for_urls --------------------------- *)
Url(i) == "https://www.quora.com/q-" \o Alphabet[i]
\* the first m result items of a search response
ResultItems(m) == [i \in 1..m |-> [url |-> Url(i), title |-> "Question " \o Alphabet[i]]]

SearchStatuses == {HTTP_OK, 404, 500}
SuccessFlags == {"true", "false", "null", "absent"}

\* What requests.post does: kind "raise" (no response), or a response with
\* its status code, whether its body is JSON (json_ok), and the payload's
\* "success" entry ("true", "false", "null" or "absent") and "data" entry
\* (has_data, data: the result items, in order).
SearchOutcomes ==
    {[kind |-> "raise", status |-> 0, json_ok |-> FALSE, success |-> "absent",
      has_data |-> FALSE, data |-> <<>>]}
    \cup {[kind |-> "response", status |-> st, json_ok |-> FALSE, success |-> "absent",
           has_data |-> FALSE, data |-> <<>>] : st \in SearchStatuses}
    \cup {[kind |-> "response", status |-> st, json_ok |-> TRUE, success |-> su,
           has_data |-> FALSE, data |-> <<>>] :
             st \in SearchStatuses, su \in SuccessFlags}
    \cup {[kind |-> "response", status |-> st, json_ok |-> TRUE, success |-> su,
           has_data |-> TRUE, data |-> ResultItems(m)] :
             st \in SearchStatuses, su \in SuccessFlags, m \in 0..MaxResults}

\* the success test as "is not False": an absent or null flag passes
SuccessNotFalse(su) == su # "false"

\* if data.get("success"):
SuccessTruthy(su) == su = "true"

\* [result["url"] for result in results]
UrlsOfItems(items) == [i \in 1..Len(items) |-> items[i].url]

\* One call of search_for_urls with limit num_links, the service answering out.
\* exc is the exception that leaves the function ("none" when it returns).
search_for_urls(num_links, out) ==
    IF out.kind = "raise"
    THEN [exc |-> "requests.post", urls |-> <<>>, requests |-> 1]
    ELSE IF out.status = HTTP_OK
         THEN IF ~out.json_ok
              THEN [exc |-> "response.json", urls |-> <<>>, requests |-> 1]
              ELSE IF SuccessTruthy(out.success)
                   THEN [exc |-> "none", requests |-> 1,
                         urls |-> UrlsOfItems(IF out.has_data THEN out.data ELSE <<>>)]
                   ELSE [exc |-> "none", urls |-> <<>>, requests |-> 1]
         ELSE [exc |-> "none", urls |-> <<>>, requests |-> 1]

(* --------------------- extract_user_info_from_urls --------------------- *)
\* two interaction records: one with every field, one with only two
FullRecord ==
    [username |-> "alice", bio |-> "founder", post_type |-> "question",
     timestamp |-> "2y ago", upvotes |-> 12,
     links |-> <<"https://a.example", "https://b.example">>]
SparseRecord == [username |-> "bob", post_type |-> "answer"]

InteractionList(m) == [i \in 1..m |-> IF i % 2 = 1 THEN FullRecord ELSE SparseRecord]

\* What firecrawl_app.extract does for one URL: kind "raise" (the call, or
\* the reading of its response, raises), or a response with "success",
\* "status", and "data" (has_data) holding "interactions" (has_list, list).
ExtractResponse(su, st, hd, hl, m) ==
    [kind |-> "response", success |-> su, status |-> st, has_data |-> hd,
     has_list |-> hl, list |-> InteractionList(m)]
ExtractOutcomes ==
    {[kind |-> "raise", success |-> FALSE, status |-> "failed", has_data |-> FALSE,
      has_list |-> FALSE, list |-> <<>>],
     ExtractResponse(FALSE, "completed", TRUE, TRUE, 1),
     ExtractResponse(TRUE, "processing", TRUE, TRUE, 1),
     ExtractResponse(TRUE, "completed", FALSE, FALSE, 0),
     ExtractResponse(TRUE, "completed", TRUE, FALSE, 0)}
    \cup {ExtractResponse(TRUE, "completed", TRUE, TRUE, m) : m \in {0, 1, MaxInteractions}}

\* response.get('data', {}).get('interactions', [])
InteractionsOf(out) == IF out.has_data /\ out.has_list THEN out.list ELSE <<>>

\* the test of a response with the status forgotten
ContributesAnyStatus(out) == out.success /\ InteractionsOf(out) # <<>>

\* if response.get('success') and response.get('status') == 'completed': ... if interactions:
Contributes(out) ==
    out.success /\ out.status = "completed" /\ InteractionsOf(out) # <<>>

\* the loop with the handler inside it: a failing URL is skipped, the rest still run
RECURSIVE ExtractIsolating(_, _, _, _)
ExtractIsolating(urls, outs, i, acc) ==
    IF i > Len(urls) THEN [list |-> acc, requests |-> Len(urls)]
    ELSE ExtractIsolating(urls, outs, i + 1,
                          IF outs[i].kind # "raise" /\ Contributes(outs[i])
                          THEN Append(acc, [website_url |-> urls[i],
                                            user_info |-> InteractionsOf(outs[i])])
                          ELSE acc)

\* The loop of extract_user_info_from_urls from URL i on, acc the entries
\* appended so far; outs[i] is what the extraction service does for urls[i].
\* An exception leaves the loop (except Exception: pass).
RECURSIVE ExtractFrom(_, _, _, _)
ExtractFrom(urls, outs, i, acc) ==
    IF i > Len(urls) THEN [list |-> acc, requests |-> Len(urls)]
    ELSE IF outs[i].kind = "raise" THEN [list |-> acc, requests |-> i]
    ELSE ExtractFrom(urls, outs, i + 1,
                     IF Contributes(outs[i])
                     THEN Append(acc, [website_url |-> urls[i],
                                       user_info |-> InteractionsOf(outs[i])])
                     ELSE acc)

extract_user_info_from_urls(urls, outs) == ExtractFrom(urls, outs, 1, <<>>)

(* ----------------- format_user_info_to_flattened_json ------------------ *)
\* the keys of a flattened row, in insertion order
Headers == <<"Website URL", "Username", "Bio", "Post Type", "Timestamp", "Upvotes", "Links">>

\* d.get(k, default)
Get(d, k, default) == IF k \in DOMAIN d THEN d[k] ELSE default

\* ", ".join(links)
RECURSIVE JoinStrings(_, _)
JoinStrings(strs, sep) ==
    IF strs = <<>> THEN ""
    ELSE IF Len(strs) = 1 THEN strs[1]
    ELSE strs[1] \o sep \o JoinStrings(Tail(strs), sep)

FlattenInteraction(website_url, interaction) ==
    ("Website URL" :> website_url)
    @@ ("Username" :> Get(interaction, "username", ""))
    @@ ("Bio" :> Get(interaction, "bio", ""))
    @@ ("Post Type" :> Get(interaction, "post_type", ""))
    @@ ("Timestamp" :> Get(interaction, "timestamp", ""))
    @@ ("Upvotes" :> Get(interaction, "upvotes", 0))
    @@ ("Links" :> JoinStrings(Get(interaction, "links", <<>>), ", "))

\* the inner loop leaving after its first interaction
FlattenEntryFirstOnly(info) ==
    [j \in 1..(IF info.user_info = <<>> THEN 0 ELSE 1) |->
        FlattenInteraction(info.website_url, info.user_info[j])]

\* for interaction in user_info: flattened_data.append(...)
FlattenEntry(info) ==
    [j \in 1..Len(info.user_info) |-> FlattenInteraction(info.website_url, info.user_info[j])]

\* for info in user_info_list: ...
RECURSIVE format_user_info_to_flattened_json(_)
format_user_info_to_flattened_json(user_info_list) ==
    IF user_info_list = <<>> THEN <<>>
    ELSE FlattenEntry(Head(user_info_list))
         \o format_user_info_to_flattened_json(Tail(user_info_list))

(* ------------------ results of the spreadsheet integration ------------- *)
\* A result object after _to_jsonable: None, a str (chars: its characters),
\* a dict (items: its key/value pairs in order, a key being a text) or a list.
JNone == [t |-> "none"]
JStr(chars) == [t |-> "str", chars |-> chars]
JDict(items) == [t |-> "dict", items |-> items]
JList(items) == [t |-> "list", items |-> items]
KV(k, v) == [k |-> k, v |-> v]

\* Python truth value: if result / if not result / a or b
Truthy(v) ==
    CASE v.t = "none" -> FALSE
      [] v.t = "str"  -> v.chars # <<>>
      [] OTHER        -> v.items # <<>>

\* obj.get(key)
DictGet(d, key) ==
    LET hit == {i \in 1..Len(d.items) : d.items[i].k = key}
    IN  IF hit = {} THEN JNone ELSE d.items[SetMin(hit)].v

\* the texts of the code and of the model's results, as their characters
S_spreadsheetId == <<"s", "p", "r", "e", "a", "d", "s", "h", "e", "e", "t", "I", "d">>
S_spreadsheet_id == <<"s", "p", "r", "e", "a", "d", "s", "h", "e", "e", "t", "_", "i", "d">>
S_spreadsheetUrl == <<"s", "p", "r", "e", "a", "d", "s", "h", "e", "e", "t", "U", "r", "l">>
S_spreadsheetURL == <<"s", "p", "r", "e", "a", "d", "s", "h", "e", "e", "t", "U", "R", "L">>
S_url == <<"u", "r", "l">>
S_sheet_url == <<"s", "h", "e", "e", "t", "_", "u", "r", "l">>
S_sheetUrl == <<"s", "h", "e", "e", "t", "U", "r", "l">>
S_document_url == <<"d", "o", "c", "u", "m", "e", "n", "t", "_", "u", "r", "l">>
S_link == <<"l", "i", "n", "k">>
S_webViewLink == <<"w", "e", "b", "V", "i", "e", "w", "L", "i", "n", "k">>
S_successful == <<"s", "u", "c", "c", "e", "s", "s", "f", "u", "l">>
S_data == <<"d", "a", "t", "a">>
S_true == <<"t", "r", "u", "e">>
S_sheet == <<"s", "h", "e", "e", "t">>
S_message == <<"m", "e", "s", "s", "a", "g", "e">>
S_abc123 == <<"a", "b", "c", "1", "2", "3">>
S_zzz9 == <<"z", "z", "z", "9">>
S_Created == <<"C", "r", "e", "a", "t", "e", "d", " ">>
S_ok == <<" ", "o", "k">>
S_null == <<"n", "u", "l", "l">>
S_https == <<"h", "t", "t", "p", "s", ":", "/", "/">>
SheetsPath ==
    <<"d", "o", "c", "s", ".", "g", "o", "o", "g", "l", "e", ".", "c", "o", "m",
      "/", "s", "p", "r", "e", "a", "d", "s", "h", "e", "e", "t", "s", "/", "d", "/">>
\* "https://docs.google.com/spreadsheets/d/"
UrlPrefix == S_https \o SheetsPath
\* the field names searched for a sheet URL, in order
UrlFields == <<S_spreadsheetUrl, S_spreadsheetURL, S_url, S_sheet_url, S_sheetUrl,
               S_document_url, S_link, S_webViewLink>>

\* The characters of the regex class [\w-] (a str pattern: \w is the Unicode
\* class) among U+0001..U+00FF; the word characters beyond U+00FF are not in
\* the texts of the model.
UpperCase == {"A", "B", "C", "D", "E", "F", "G", "H", "I", "J", "K", "L", "M",
              "N", "O", "P", "Q", "R", "S", "T", "U", "V", "W", "X", "Y", "Z"}
Digits == {"0", "1", "2", "3", "4", "5", "6", "7", "8", "9"}
HighWordCodes ==
    {170, 178, 179, 181, 185, 186} \cup (188..190) \cup (192..214) \cup (216..246)
    \cup (248..255)
WordChars ==
    {Alphabet[i] : i \in 1..Len(Alphabet)} \cup UpperCase \cup Digits \cup {"_", "-"}
    \cup {High[n - 126] : n \in HighWordCodes}

\* the characters of a text as one string
TextOf(chars) == JoinStrings(chars, "")

\* text[i:].startswith(pat)
StartsAt(text, i, pat) ==
    /\ i + Len(pat) - 1 <= Len(text)
    /\ SubSeq(text, i, i + Len(pat) - 1) = pat

\* "docs.google.com/spreadsheets/d/" in val
HasSheetsPath(text) == \E i \in 1..Len(text) : StartsAt(text, i, SheetsPath)

\* the last index of the longest run of [\w-] that starts at i; i - 1 when there is none
RECURSIVE WordEnd(_, _)
WordEnd(text, i) ==
    IF i <= Len(text) /\ text[i] \in WordChars THEN WordEnd(text, i + 1) ELSE i - 1

\* re.search(r"https://docs\.google\.com/spreadsheets/d/[\w-]+", text): the
\* leftmost match, <<>> when there is none
SearchSheetUrl(text) ==
    LET IdAt(i) == i + Len(UrlPrefix)
        hit == {i \in 1..Len(text) :
                  StartsAt(text, i, UrlPrefix) /\ WordEnd(text, IdAt(i)) >= IdAt(i)}
    IN  IF hit = {} THEN <<>>
        ELSE SubSeq(text, SetMin(hit), WordEnd(text, IdAt(SetMin(hit))))

\* the index after the whitespace characters that start at i
RECURSIVE SkipSpace(_, _)
SkipSpace(text, i) ==
    IF i <= Len(text) /\ text[i] \in Whitespace THEN SkipSpace(text, i + 1) ELSE i

\* re.search(r"spreadsheetId\"?\s*[:=]\s*\"([\w-]+)\"", text): the group of
\* the leftmost match, <<>> when there is none
SearchSheetId(text) ==
    LET At(i) ==
          LET a == i + Len(S_spreadsheetId)
              b == SkipSpace(text, IF a <= Len(text) /\ text[a] = "\"" THEN a + 1 ELSE a)
              c == SkipSpace(text, b + 1)
              e == WordEnd(text, c + 1)
          IN  IF /\ StartsAt(text, i, S_spreadsheetId)
                 /\ b <= Len(text) /\ text[b] \in {":", "="}
                 /\ c <= Len(text) /\ text[c] = "\""
                 /\ e >= c + 1
                 /\ e + 1 <= Len(text) /\ text[e + 1] = "\""
              THEN SubSeq(text, c + 1, e) ELSE <<>>
        hit == {i \in 1..Len(text) : At(i) # <<>>}
    IN  IF hit = {} THEN <<>> ELSE At(SetMin(hit))

\* the four lower-case hexadecimal digits of n < 65536
HexDigits == <<"0", "1", "2", "3", "4", "5", "6", "7", "8", "9", "a", "b", "c", "d", "e", "f">>
Hex4(n) ==
    <<HexDigits[(n \div 4096) + 1], HexDigits[((n \div 256) % 16) + 1],
      HexDigits[((n \div 16) % 16) + 1], HexDigits[(n % 16) + 1]>>

\* json.dumps (ensure_ascii) writes a character of a string: the quote, the
\* backslash and every character outside U+0020..U+007E are escaped
EscapeChar(c) ==
    CASE c = "\"" -> <<"\\", "\"">>
      [] c = "\\" -> <<"\\", "\\">>
      [] c = "\n" -> <<"\\", "n">>
      [] c = "\r" -> <<"\\", "r">>
      [] c = "\t" -> <<"\\", "t">>
      [] c = "\f" -> <<"\\", "f">>
      [] c = BS   -> <<"\\", "b">>
      [] OTHER    -> IF c \in NonPrintable THEN <<"\\", "u">> \o Hex4(CodePoint(c)) ELSE <<c>>

\* json.dumps of a str: its escaped characters between quotes
RECURSIVE EscapeAll(_)
EscapeAll(chars) ==
    IF chars = <<>> THEN <<>> ELSE EscapeChar(Head(chars)) \o EscapeAll(Tail(chars))
DumpStr(chars) == <<"\"">> \o EscapeAll(chars) \o <<"\"">>

\* json.dumps(obj, default=str), as characters
RECURSIVE Dumps(_)
RECURSIVE DumpItems(_, _)
Dumps(v) ==
    CASE v.t = "none" -> S_null
      [] v.t = "str"  -> DumpStr(v.chars)
      [] v.t = "dict" -> <<"{">> \o DumpItems(v.items, TRUE) \o <<"}">>
      [] OTHER        -> <<"[">> \o DumpItems(v.items, FALSE) \o <<"]">>
DumpItems(items, keyed) ==
    IF items = <<>> THEN <<>>
    ELSE (IF keyed THEN DumpStr(Head(items).k) \o <<":", " ">> \o Dumps(Head(items).v)
          ELSE Dumps(Head(items)))
         \o (IF Len(items) > 1 THEN <<",", " ">> ELSE <<>>)
         \o DumpItems(Tail(items), keyed)

\* a or b, on texts where "" stands for None
OrElse(a, b) == IF a # "" THEN a ELSE b

\* lines 160-173: the URL found in a text, or the one built from the
\* identifier found in it
IdUrl(id) == IF id # <<>> THEN TextOf(UrlPrefix \o id) ELSE ""
FromText(text) == OrElse(TextOf(SearchSheetUrl(text)), IdUrl(SearchSheetId(text)))

\* _extract_google_sheet_url_from_any; "" stands for None
RECURSIVE extract_google_sheet_url_from_any(_)
RECURSIVE FirstFound(_)
FirstFound(values) ==
    IF values = <<>> THEN ""
    ELSE OrElse(extract_google_sheet_url_from_any(Head(values)), FirstFound(Tail(values)))

\* the recovery with the URL-bearing fields of a mapping read before its identifier
ExtractUrlFieldsFirst(obj) ==
    LET sid == IF Truthy(DictGet(obj, S_spreadsheetId)) THEN DictGet(obj, S_spreadsheetId)
               ELSE DictGet(obj, S_spreadsheet_id)
        fields == {i \in 1..Len(UrlFields) :
                     /\ DictGet(obj, UrlFields[i]).t = "str"
                     /\ HasSheetsPath(DictGet(obj, UrlFields[i]).chars)}
        structural ==
            IF obj.t = "dict"
            THEN IF fields # {} THEN TextOf(DictGet(obj, UrlFields[SetMin(fields)]).chars)
                 ELSE IF sid.t = "str" /\ sid.chars # <<>> THEN TextOf(UrlPrefix \o sid.chars)
                 ELSE FirstFound([i \in 1..Len(obj.items) |-> obj.items[i].v])
            ELSE IF obj.t = "list" THEN FirstFound(obj.items)
            ELSE ""
    IN  OrElse(structural, FromText(IF obj.t = "str" THEN obj.chars ELSE Dumps(obj)))

extract_google_sheet_url_from_any(obj) ==
    LET sid == IF Truthy(DictGet(obj, S_spreadsheetId)) THEN DictGet(obj, S_spreadsheetId)
               ELSE DictGet(obj, S_spreadsheet_id)
        fields == {i \in 1..Len(UrlFields) :
                     /\ DictGet(obj, UrlFields[i]).t = "str"
                     /\ HasSheetsPath(DictGet(obj, UrlFields[i]).chars)}
        structural ==
            IF obj.t = "dict"
            THEN IF sid.t = "str" /\ sid.chars # <<>> THEN TextOf(UrlPrefix \o sid.chars)
                 ELSE IF fields # {} THEN TextOf(DictGet(obj, UrlFields[SetMin(fields)]).chars)
                 ELSE FirstFound([i \in 1..Len(obj.items) |-> obj.items[i].v])
            ELSE IF obj.t = "list" THEN FirstFound(obj.items)
            ELSE ""
    IN  OrElse(structural, FromText(IF obj.t = "str" THEN obj.chars ELSE Dumps(obj)))

(* ---------------- write_to_google_sheets_via_composio ------------------ *)
\* the keys of the payloads of payload_options, in order
PayloadOptions == <<{"title", "data"}, {"title", "rows"}, {"title", "json"}, {"data"}>>

\* A toolkit: the invocation conventions it has (has), how its run takes the
\* arguments (run_style: "both" for run(self, action, params), "keywords" when
\* run(action, payload) raises TypeError, "positional" when
\* run(action=..., params=...) does), and its tools collection (per tool: its
\* name contains GOOGLESHEETS, it has run, it is callable).
Toolkit(has, style) ==
    [has |-> has, run_style |-> style,
     tools |-> <<[matches |-> FALSE, has_run |-> TRUE, is_callable |-> TRUE],
                 [matches |-> TRUE, has_run |-> FALSE, is_callable |-> FALSE],
                 [matches |-> TRUE, has_run |-> FALSE, is_callable |-> TRUE],
                 [matches |-> TRUE, has_run |-> TRUE, is_callable |-> TRUE]>>]
Toolkits ==
    {Toolkit({c}, "both") : c \in {"run", "run_action", "invoke", "execute", "tools"}}
    \cup {Toolkit({"run"}, "positional"), Toolkit({}, "both"),
          Toolkit({"run", "run_action", "invoke", "execute", "tools"}, "keywords")}

\* What the integration does with one call: it raises (exc: a TypeError or
\* another exception), or returns None, an empty result, or a result that
\* holds a sheet or does not.
SheetCreated ==
    JDict(<<KV(S_successful, JStr(S_true)),
            KV(S_data, JDict(<<KV(S_spreadsheetId, JStr(S_abc123))>>))>>)
\* "Created https://docs.google.com/spreadsheets/d/zzz9 ok"
SheetInText == JStr(S_Created \o UrlPrefix \o S_zzz9 \o S_ok)
NoSheet == JDict(<<KV(S_successful, JStr(S_true))>>)
Answers ==
    {[raises |-> TRUE, exc |-> e, value |-> JNone] : e \in {"TypeError", "RuntimeError"}}
    \cup {[raises |-> FALSE, exc |-> "none", value |-> v] :
            v \in {JNone, JDict(<<>>), SheetCreated, SheetInText, NoSheet}}

\* the tool of toolkit.tools the scan invokes: the first whose name matches
\* and that has run or is callable; 0 when there is none
ScanTools(tools) ==
    LET hit == {i \in 1..Len(tools) :
                  tools[i].matches /\ (tools[i].has_run \/ tools[i].is_callable)}
    IN  IF hit = {} THEN 0 ELSE SetMin(hit)

\* the outcome of a call that reached the integration and got the answer a
Reach(result, via, a) ==
    IF a.raises THEN [result |-> result, via |-> via, raised |-> TRUE]
    ELSE [result |-> a.value, via |-> via, raised |-> FALSE]

\* Lines 202-207. run(action=..., params=...) is tried first; a TypeError, of
\* the call itself or raised by the integration, leads to run(action, payload),
\* whose answer is retry. Any other exception, and any exception of the
\* second call, leaves the pass (line 238).
RunPass(tk, result, ans, retry) ==
    IF tk.run_style = "positional" THEN Reach(result, <<"run_positional">>, ans)
    ELSE IF ans.exc # "TypeError" THEN Reach(result, <<"run_keywords">>, ans)
    ELSE IF tk.run_style = "both"
         THEN Reach(result, <<"run_keywords", "run_positional">>, retry)
         ELSE [result |-> result, via |-> <<"run_keywords">>, raised |-> TRUE]

\* the pass before its first call: result is the value left by the passes before
Start(result) == [result |-> result, via |-> <<>>, raised |-> FALSE]

\* The pass s makes the call of convention conv: the toolkit has it, the pass
\* has not ended in the handler of line 238 and, but for run, result is None
\* (lines 202, 209, 211, 216, 222); the scan of tools calls when it finds a
\* tool to invoke.
Asks(tk, s, conv) ==
    /\ ~s.raised
    /\ conv \in tk.has
    /\ conv = "run" \/ s.result.t = "none"
    /\ conv = "tools" => ScanTools(tk.tools) # 0

\* A call of lines 209-234 with the answer a. An exception of run_action
\* leaves the pass (line 238); one of invoke, execute or the scan of tools is
\* passed over (lines 214, 219, 233) and leaves result as it was.
Fallback(s, conv, a) ==
    IF a.raises
    THEN [s EXCEPT !.via = Append(@, conv), !.raised = (conv = "run_action")]
    ELSE [s EXCEPT !.via = Append(@, conv), !.result = a.value]

\* One pass of the loop over payload_options (lines 199-240): result is the
\* value left by the passes before; answers gives, for each call the pass may
\* make, what the integration does with it (run, retry for the second call of
\* run, run_action, invoke, execute, tools). via lists the calls that
\* reached the integration, raised says that the pass ended in the handler
\* of line 238.
TryPayload(tk, result, answers) ==
    LET s0 == Start(result)
        s1 == IF Asks(tk, s0, "run")
              THEN RunPass(tk, result, answers.run, answers.retry) ELSE s0
        s2 == IF Asks(tk, s1, "run_action")
              THEN Fallback(s1, "run_action", answers.run_action) ELSE s1
        s3 == IF Asks(tk, s2, "invoke")
              THEN Fallback(s2, "invoke", answers.invoke) ELSE s2
        s4 == IF Asks(tk, s3, "execute")
              THEN Fallback(s3, "execute", answers.execute) ELSE s3
        s5 == IF Asks(tk, s4, "tools")
              THEN Fallback(s4, "tools", answers.tools) ELSE s4
    IN  s5

\* The outcomes of one pass over every way the integration may answer its
\* calls, each call with an answer of its own: TryPayload over all answers,
\* computed call by call so that only the calls made draw an answer.
Passes(tk, result) ==
    LET s0 == Start(result)
        S1 == IF Asks(tk, s0, "run")
              THEN {RunPass(tk, result, a, r) : a \in Answers, r \in Answers}
              ELSE {s0}
        After(S, conv) ==
            UNION {IF Asks(tk, s, conv) THEN {Fallback(s, conv, a) : a \in Answers}
                   ELSE {s} : s \in S}
    IN  After(After(After(After(S1, "run_action"), "invoke"), "execute"), "tools")

\* if result: used_payload = payload; break
Breaks(pass) == ~pass.raised /\ Truthy(pass.result)

\* lines 242-277: the return value once the loop is over ("" stands for None)
SheetUrlOf(result) ==
    IF ~Truthy(result) THEN ""
    ELSE OrElse(extract_google_sheet_url_from_any(result),
                extract_google_sheet_url_from_any(
                    JStr(IF result.t = "str" THEN result.chars ELSE Dumps(result))))

(* ------------- result objects handed to the URL recovery --------------- *)
\* A result object of this family holds the mapping {"spreadsheetId": "abc123"}
\* under wrappers (wrappers[1] the innermost): a "dict" wrapper holds it under
\* the key "data", a "list" wrapper as an item. One other field (decoy) may sit
\* at a level (0: in the mapping itself, k: in the k-th wrapper), before or
\* after the sought mapping; in a list the decoy is an item {decoy}.
SoughtField == KV(S_spreadsheetId, JStr(S_abc123))

\* The decoys: a URL field, one whose URL has no scheme, the other identifier
\* field, a mapping with an identifier of its own, a text that holds a URL,
\* and a text that holds spreadsheetId="zzz9 (no closing quote).
DecoyKinds == {"url", "bare_url", "alt_id", "other_id", "text", "quoted"}
Decoy(kind) ==
    CASE kind = "url"      -> KV(S_url, JStr(UrlPrefix \o S_zzz9))
      [] kind = "bare_url" -> KV(S_link, JStr(SheetsPath \o S_zzz9))
      [] kind = "alt_id"   -> KV(S_spreadsheet_id, JStr(S_zzz9))
      [] kind = "other_id" -> KV(S_sheet, JDict(<<KV(S_spreadsheetId, JStr(S_zzz9))>>))
      [] kind = "text"     -> KV(S_message, SheetInText)
      [] OTHER             -> KV(S_message, JStr(S_spreadsheetId \o <<"=", "\"">> \o S_zzz9))

WrapperSeqs == UNION {[1..d -> {"dict", "list"}] : d \in 0..MaxDepth}
Shapes ==
    {[wrappers |-> w, decoy |-> "none", level |-> 0, side |-> "before"] : w \in WrapperSeqs}
    \cup {sh \in [wrappers : WrapperSeqs, decoy : DecoyKinds, level : 0..MaxDepth,
                  side : {"before", "after"}] : sh.level <= Len(sh.wrappers)}

\* items with the extra one put before or after them
Beside(items, extra, side) == IF side = "before" THEN <<extra>> \o items ELSE items \o <<extra>>

\* the object once the wrappers from the k-th on are put around inner
RECURSIVE Wrap(_, _, _)
Wrap(inner, sh, k) ==
    IF k > Len(sh.wrappers) THEN inner
    ELSE LET here == sh.decoy # "none" /\ sh.level = k
             w == IF sh.wrappers[k] = "dict"
                  THEN JDict(IF here
                             THEN Beside(<<KV(S_data, inner)>>, Decoy(sh.decoy), sh.side)
                             ELSE <<KV(S_data, inner)>>)
                  ELSE JList(IF here
                             THEN Beside(<<inner>>, JDict(<<Decoy(sh.decoy)>>), sh.side)
                             ELSE <<inner>>)
         IN  Wrap(w, sh, k + 1)

ResultObject(sh) ==
    Wrap(JDict(IF sh.decoy # "none" /\ sh.level = 0
               THEN Beside(<<SoughtField>>, Decoy(sh.decoy), sh.side)
               ELSE <<SoughtField>>),
         sh, 1)

(* ------------------------------- main ---------------------------------- *)
\* the checks with the one of the Composio key forgotten
ConfigErrorNoComposio(fc, keys, co, q) ==
    IF fc = "" THEN "firecrawl_key_required"
    ELSE IF keys = <<>> THEN "gemini_key_required"
    ELSE IF q = "" THEN "query_required"
    ELSE "none"

\* the checks of the "Generate Leads" handler, in order; "none" when all pass
ConfigError(fc, keys, co, q) ==
    IF fc = "" THEN "firecrawl_key_required"
    ELSE IF keys = <<>> THEN "gemini_key_required"
    ELSE IF co = "" THEN "composio_key_required"
    ELSE IF q = "" THEN "query_required"
    ELSE "none"

FirecrawlKeyInputs == {"", "fc-key"}
ComposioKeyInputs == {"", "co-key"}
QueryInputs == {"", "users who need AI video editing software"}

NoRequests == [llm |-> 0, search |-> 0, extract |-> 0]
NoToolkit == [has |-> {}, run_style |-> "none", tools |-> <<>>]
NoCsv == [header |-> <<>>, rows |-> <<>>]

\* ComposioToolSet(...).get_tools(...)[0]: it raises, or gives a toolkit
Acquisitions ==
    {[raises |-> TRUE, toolkit |-> NoToolkit]}
    \cup {[raises |-> FALSE, toolkit |-> tk] : tk \in Toolkits}

\* main, lines 442-466: what the page shows for the link and the rows
ShownFor(link, rows) ==
    IF link # "" THEN {"success", "sheet_link"}
    ELSE {"failed_to_retrieve_link"} \cup (IF rows # <<>> THEN {"download_csv"} ELSE {})

\* the download offered whenever rows exist, whether or not a link was recovered
CsvForDespiteLink(link, rows) ==
    IF rows # <<>> THEN [header |-> Headers, rows |-> rows] ELSE NoCsv

\* lines 450-463: fieldnames = list(flattened_data[0].keys()) and one line per row
CsvFor(link, rows) ==
    IF link = "" /\ rows # <<>> THEN [header |-> Headers, rows |-> rows] ELSE NoCsv
\* no payload tried yet
NothingSent == [keys |-> <<>>, via |-> <<>>]
NothingSeen == [stage |-> "none"]

VARIABLES
    raw_keys,        \* the "Gemini API Keys" text input
    secrets,         \* the Gemini secrets of the deployment
    session_state,   \* st.session_state
    usedKeys,        \* the key of each genai.configure call since the session began
    pc,              \* where the script run is: idle, search, extract, publish, publish_loop, done
    num_links,       \* main's num_links, read by search_for_urls
    concise,         \* main's concise, read by search_for_urls
    urls,            \* main's urls, read by extract_user_info_from_urls
    flattened_data,  \* main's flattened_data
    ui,              \* the messages the run has put on the page
    net,             \* requests the run has issued to the LLM, the search and the scraper
    escaped,         \* the exception that left main uncaught, "none" otherwise
    toolkit,         \* write_to_google_sheets_via_composio's toolkit
    result,          \* write_to_google_sheets_via_composio's result
    sent,            \* the keys of each payload tried, and the calls of the latest pass
    google_sheets_link, \* main's google_sheets_link, "" for None
    csv,             \* the CSV offered for download
    seen             \* inputs and results of the stage that ran last

vars == <<raw_keys, secrets, session_state, usedKeys, pc, num_links, concise, urls,
          flattened_data, ui, net, escaped, toolkit, result, sent, google_sheets_link,
          csv, seen>>

Init ==
    /\ raw_keys \in RawKeyInputs
    /\ secrets \in SecretInputs
    /\ session_state = NoSession
    /\ usedKeys = <<>>
    /\ pc = "idle"
    /\ num_links = 0
    /\ concise = <<>>
    /\ urls = <<>>
    /\ flattened_data = <<>>
    /\ ui = {}
    /\ net = NoRequests
    /\ escaped = "none"
    /\ toolkit = NoToolkit
    /\ result = JNone
    /\ sent = NothingSent
    /\ google_sheets_link = ""
    /\ csv = NoCsv
    /\ seen = NothingSeen

\* main, lines 392-414: the click on "Generate Leads", the four checks and
\* the call of transform_with_gemini
GenerateLeads ==
    /\ pc = "idle"
    /\ \E fc \in FirecrawlKeyInputs, co \in ComposioKeyInputs, q \in QueryInputs,
          n \in 1..MaxLinks :
        LET gemini_keys == parse_gemini_keys(raw_keys, secrets)
            err == ConfigError(fc, gemini_keys, co, q)
            given == [stage |-> "generate", firecrawl_api_key |-> fc,
                      gemini_keys |-> gemini_keys, composio_api_key |-> co,
                      user_query |-> q]
        IN  /\ num_links' = n
            /\ IF err # "none"
               THEN /\ ui' = {err}
                    /\ pc' = "done"
                    /\ seen' = given
                    /\ UNCHANGED <<session_state, usedKeys, concise, net>>
               ELSE /\ Len(usedKeys) < MaxCalls
                    /\ \E out \in LlmOutcomes :
                         LET r == transform_with_gemini(session_state, gemini_keys, out)
                         IN  /\ session_state' = r.ss
                             /\ usedKeys' = Append(usedKeys, r.key)
                             /\ net' = [net EXCEPT !.llm = @ + r.calls]
                             /\ seen' = given @@ [llm |-> out]
                             /\ IF r.exc # "none"
                                THEN /\ ui' = {"gemini_transform_failed"}
                                     /\ pc' = "done"
                                     /\ concise' = <<>>
                                ELSE /\ ui' = {"searching_for"}
                                     /\ pc' = "search"
                                     /\ concise' = r.text
    /\ UNCHANGED <<raw_keys, secrets, urls, flattened_data, escaped, toolkit, result, sent,
                   google_sheets_link, csv>>

\* main, lines 416-422 and 467-468: search_for_urls and the branch on its result.
\* main has no handler around the call: an exception of it ends the run.
SearchStep ==
    /\ pc = "search"
    /\ \E out \in SearchOutcomes :
        LET r == search_for_urls(num_links, out)
        IN  /\ net' = [net EXCEPT !.search = @ + r.requests]
            /\ seen' = [stage |-> "search", limit |-> num_links, out |-> out,
                        exc |-> r.exc, urls |-> r.urls]
            /\ IF r.exc # "none"
               THEN /\ escaped' = r.exc
                    /\ pc' = "done"
                    /\ urls' = <<>>
                    /\ ui' = ui
               ELSE /\ escaped' = escaped
                    /\ urls' = r.urls
                    /\ IF r.urls = <<>>
                       THEN ui' = ui \cup {"no_relevant_urls"} /\ pc' = "done"
                       ELSE ui' = ui \cup {"links_used"} /\ pc' = "extract"
    \* concise and num_links are not read again in this run
    /\ concise' = <<>>
    /\ num_links' = 0
    /\ UNCHANGED <<raw_keys, secrets, session_state, usedKeys, flattened_data, toolkit,
                   result, sent, google_sheets_link, csv>>

\* main, lines 424-432: extract_user_info_from_urls, then
\* format_user_info_to_flattened_json, then the branch on the rows
ExtractStep ==
    /\ pc = "extract"
    /\ \E outs \in [1..Len(urls) -> ExtractOutcomes] :
        LET r == extract_user_info_from_urls(urls, outs)
            rows == format_user_info_to_flattened_json(r.list)
        IN  /\ net' = [net EXCEPT !.extract = @ + r.requests]
            /\ seen' = [stage |-> "extract", urls |-> urls, outs |-> outs,
                        user_info_list |-> r.list]
            /\ flattened_data' = rows
            /\ IF rows = <<>>
               THEN /\ ui' = ui \cup {"no_interactions_found"} \cup ShownFor("", rows)
                    /\ pc' = "done"
               ELSE /\ ui' = ui
                    /\ pc' = "publish"
    \* urls is not read again in this run
    /\ urls' = <<>>
    /\ UNCHANGED <<raw_keys, secrets, session_state, usedKeys, num_links, concise, escaped,
                   toolkit, result, sent, google_sheets_link, csv>>

\* write_to_google_sheets_via_composio, lines 179-197: the toolkit is fetched;
\* an exception here is caught at line 278 and the function returns None,
\* then main shows the outcome (lines 442-466)
PublishAcquire ==
    /\ pc = "publish"
    /\ \E acq \in Acquisitions :
        \* line 180: if not flattened_data: return None, before the toolkit is fetched
        /\ toolkit' = IF flattened_data = <<>> THEN NoToolkit ELSE acq.toolkit
        /\ IF flattened_data = <<>> \/ acq.raises
           THEN /\ pc' = "done"
                /\ ui' = ui \cup ShownFor("", flattened_data)
                /\ csv' = CsvFor("", flattened_data)
           ELSE /\ pc' = "publish_loop"
                /\ ui' = ui
                /\ csv' = csv
    /\ seen' = [stage |-> "publish"]
    /\ UNCHANGED <<raw_keys, secrets, session_state, usedKeys, num_links, concise, urls,
                   flattened_data, net, escaped, result, sent, google_sheets_link>>

\* One pass of the loop of lines 198-240 and, when the loop is over, the
\* rest of the function (lines 242-277) and of main (lines 442-466)
PublishTry ==
    /\ pc = "publish_loop"
    /\ \E pass \in Passes(toolkit, result) :
        LET p == Len(sent.keys) + 1
        IN  /\ result' = pass.result
            /\ sent' = [keys |-> Append(sent.keys, PayloadOptions[p]), via |-> pass.via]
            /\ IF Breaks(pass) \/ p = Len(PayloadOptions)
               THEN \* link: the function's return value
                    \E link \in {SheetUrlOf(pass.result)} :
                      /\ pc' = "done"
                      /\ google_sheets_link' = link
                      /\ ui' = ui \cup ShownFor(link, flattened_data)
                      /\ csv' = CsvFor(link, flattened_data)
               ELSE /\ pc' = "publish_loop"
                    /\ google_sheets_link' = google_sheets_link
                    /\ ui' = ui
                    /\ csv' = csv
    /\ UNCHANGED <<raw_keys, secrets, session_state, usedKeys, num_links, concise, urls,
                   flattened_data, net, escaped, toolkit, seen>>

\* The script run is over and the page is drawn again without the button
\* pressed: the last run's output and locals are gone, the session stays.
Rerun ==
    /\ pc = "done"
    /\ pc' = "idle"
    /\ num_links' = 0
    /\ concise' = <<>>
    /\ urls' = <<>>
    /\ flattened_data' = <<>>
    /\ ui' = {}
    /\ net' = NoRequests
    /\ escaped' = "none"
    /\ toolkit' = NoToolkit
    /\ result' = JNone
    /\ sent' = NothingSent
    /\ google_sheets_link' = ""
    /\ csv' = NoCsv
    /\ seen' = NothingSeen
    /\ UNCHANGED <<raw_keys, secrets, session_state, usedKeys>>

\* main, lines 382-384: st.session_state.clear() and a rerun
Reset ==
    /\ pc \in {"idle", "done"}
    /\ session_state' = NoSession
    /\ usedKeys' = <<>>
    /\ pc' = "idle"
    /\ num_links' = 0
    /\ concise' = <<>>
    /\ urls' = <<>>
    /\ flattened_data' = <<>>
    /\ ui' = {}
    /\ net' = NoRequests
    /\ escaped' = "none"
    /\ toolkit' = NoToolkit
    /\ result' = JNone
    /\ sent' = NothingSent
    /\ google_sheets_link' = ""
    /\ csv' = NoCsv
    /\ seen' = NothingSeen
    /\ UNCHANGED <<raw_keys, secrets>>

Next ==
    \/ GenerateLeads
    \/ SearchStep
    \/ ExtractStep
    \/ PublishAcquire
    \/ PublishTry
    \/ Rerun
    \/ Reset

Spec == Init /\ [][Next]_vars

(* --------------- the URL recovery on its own (UrlSpec) ----------------- *)
\* write_to_google_sheets_via_composio has a result object of the family
\* above in hand (seen.shape tells which)
UrlInit ==
    /\ raw_keys = <<>>
    /\ secrets = NoSecrets
    /\ session_state = NoSession
    /\ usedKeys = <<>>
    /\ pc = "parse"
    /\ num_links = 0
    /\ concise = <<>>
    /\ urls = <<>>
    /\ flattened_data = <<>>
    /\ ui = {}
    /\ net = NoRequests
    /\ escaped = "none"
    /\ toolkit = NoToolkit
    /\ \E sh \in Shapes :
          /\ result = ResultObject(sh)
          /\ seen = [stage |-> "parse", shape |-> sh]
    /\ sent = NothingSent
    /\ google_sheets_link = ""
    /\ csv = NoCsv

\* line 246: url = _extract_google_sheet_url_from_any(result)
ExtractSheetUrl ==
    /\ pc = "parse"
    /\ google_sheets_link' = extract_google_sheet_url_from_any(result)
    /\ pc' = "parsed"
    /\ UNCHANGED <<raw_keys, secrets, session_state, usedKeys, num_links, concise, urls,
                   flattened_data, ui, net, escaped, toolkit, result, sent, csv, seen>>

UrlNext == ExtractSheetUrl

UrlSpec == UrlInit /\ [][UrlNext]_vars

(* ============================ properties =============================== *)
\* the key pool of the session
Pool == parse_gemini_keys(raw_keys, secrets)

\* the run passed the checks and called the language model
CalledModel == seen.stage = "generate" /\ "llm" \in DOMAIN seen

\* C1: with a fixed pool of K >= 1 keys, the j-th transform_with_gemini call
\* of a session uses key ((j - 1) mod K) + 1 of the pool, so K calls in a row
\* use each key once in the pool's order and call K + 1 uses the first key
\* again; the cursor has advanced after every call, also after one whose
\* model call raised.
C1_RoundRobin ==
    LET K == Len(Pool)
    IN  /\ \A j \in 1..Len(usedKeys) : usedKeys[j] = Pool[((j - 1) % K) + 1]
        /\ usedKeys # <<>> =>
             /\ "gemini_key_index" \in DOMAIN session_state
             /\ session_state["gemini_key_index"] = Len(usedKeys) % K

\* call K + 1 of a pool of K >= 2 keys has just been made, and its model call raised
C1_Witness ==
    /\ Len(Pool) >= 2
    /\ Len(usedKeys) = Len(Pool) + 1
    /\ CalledModel
    /\ seen.llm.kind = "raise"
    /\ usedKeys[Len(usedKeys)] = Pool[1]

\* the inputs of a click lack the search key, the key pool, the integration key or the query
ConfigMissing(given) ==
    \/ given.firecrawl_api_key = ""
    \/ given.gemini_keys = <<>>
    \/ given.composio_api_key = ""
    \/ given.user_query = ""

ConfigErrors ==
    {"firecrawl_key_required", "gemini_key_required", "composio_key_required",
     "query_required"}

\* C2: a click on "Generate Leads" with the search key, the key pool, the
\* integration key or the query missing ends the run at once with an error on
\* the page, no request issued to any service and the rotation cursor unchanged.
C2_ConfigHaltsBeforeNetwork ==
    [][(pc = "idle" /\ seen'.stage = "generate" /\ ConfigMissing(seen'))
        => /\ pc' = "done"
           /\ ui' \cap ConfigErrors # {}
           /\ net' = NoRequests
           /\ session_state' = session_state
           /\ usedKeys' = usedKeys]_vars

\* a run halted on the missing integration key alone, in a session whose cursor has moved
C2_Witness ==
    /\ pc = "done"
    /\ seen.stage = "generate"
    /\ seen.firecrawl_api_key # ""
    /\ seen.gemini_keys # <<>>
    /\ seen.composio_api_key = ""
    /\ seen.user_query # ""
    /\ ui = {"composio_key_required"}
    /\ usedKeys # <<>>
    /\ net = NoRequests

\* C3: no exception of a third-party client leaves the component that made
\* the call: search_for_urls, extract_user_info_from_urls and
\* write_to_google_sheets_via_composio return their "no result" value instead,
\* and only the language-model call's exception reaches main, which shows it.
C3_ClientExceptionsContained ==
    /\ escaped = "none"
    /\ seen.stage = "search" => seen.exc = "none"
    /\ (CalledModel /\ seen.llm.kind = "raise") => "gemini_transform_failed" \in ui

\* the search returned: status 200, a JSON payload, a true success flag
SearchSucceeded ==
    /\ seen.stage = "search"
    /\ seen.out.kind = "response"
    /\ seen.out.status = HTTP_OK
    /\ seen.out.json_ok
    /\ seen.out.success = "true"

\* C4: on a successful search response search_for_urls returns the url of
\* each result item in response order, cut to at most limit items, also when
\* the response carries more than limit items.
C4_TruncatedToLimit ==
    SearchSucceeded =>
        /\ seen.exc = "none"
        /\ Len(seen.urls) <= seen.limit
        /\ \A i \in 1..Len(seen.urls) : seen.urls[i] = seen.out.data[i].url
        /\ Len(seen.urls) = IF Len(seen.out.data) < seen.limit
                            THEN Len(seen.out.data) ELSE seen.limit

\* C5: search_for_urls returns the empty sequence and raises nothing when
\* the response has a 4xx/5xx status, or a payload whose success flag is false
\* or absent; every call issues exactly one search request.
C5_EmptyOnFailure ==
    seen.stage = "search" =>
        /\ net.search = 1
        /\ (/\ seen.out.kind = "response"
            /\ \/ seen.out.status >= 400
               \/ seen.out.json_ok /\ seen.out.success \in {"false", "absent"})
           => (seen.exc = "none" /\ seen.urls = <<>> /\ escaped = "none")

\* a 200 response whose payload has no success flag but carries result items
C5_Witness ==
    /\ seen.stage = "search"
    /\ seen.out.kind = "response"
    /\ seen.out.status = HTTP_OK
    /\ seen.out.json_ok
    /\ seen.out.success = "absent"
    /\ seen.out.data # <<>>
    /\ seen.urls = <<>>
    /\ "no_relevant_urls" \in ui

\* the response reports success, status "completed" and a non-empty interactions list
MeetsCondition(out) ==
    /\ out.kind = "response"
    /\ out.success
    /\ out.status = "completed"
    /\ out.has_data /\ out.has_list
    /\ out.list # <<>>

\* the URLs before position stop whose response meets the condition
Contributors(stop) == {i \in 1..(stop - 1) : MeetsCondition(seen.outs[i])}

\* list holds, in input order, one entry per URL of idx, each with its own interactions
HoldsExactly(list, idx) ==
    /\ Len(list) = Cardinality(idx)
    /\ \A i \in idx :
         list[Cardinality({j \in idx : j <= i})] =
             [website_url |-> seen.urls[i], user_info |-> seen.outs[i].list]

FirstRaise ==
    SetMin({i \in 1..Len(seen.urls) : seen.outs[i].kind = "raise"} \cup {Len(seen.urls) + 1})

\* C6: when no extraction call raises, every URL is requested and the result
\* of extract_user_info_from_urls is exactly the URLs whose response reports
\* success, status "completed" and a non-empty interactions list, in input
\* order, each paired with its own interactions; the others are skipped.
C6_OnlyCompletedNonEmpty ==
    (seen.stage = "extract" /\ FirstRaise > Len(seen.urls))
        => /\ net.extract = Len(seen.urls)
           /\ HoldsExactly(seen.user_info_list, Contributors(Len(seen.urls) + 1))

\* no call raised, the first URL was skipped and a later one contributed
C6_Witness ==
    /\ seen.stage = "extract"
    /\ FirstRaise > Len(seen.urls)
    /\ Len(seen.urls) >= 2
    /\ ~MeetsCondition(seen.outs[1])
    /\ seen.outs[1].success /\ seen.outs[1].list # <<>>
    /\ MeetsCondition(seen.outs[2])
    /\ Len(seen.user_info_list) = 1

\* C7: when the processing of the i-th URL raises, no request is issued for
\* a later URL, and extract_user_info_from_urls returns, without raising,
\* exactly the entries of URLs 1..i-1.
C7_AbortKeepsPrefix ==
    (seen.stage = "extract" /\ FirstRaise <= Len(seen.urls))
        => /\ net.extract = FirstRaise
           /\ HoldsExactly(seen.user_info_list, Contributors(FirstRaise))
           /\ escaped = "none"
           /\ pc \in {"publish", "done"}

\* the second URL raised after the first had contributed
C7_Witness ==
    /\ seen.stage = "extract"
    /\ FirstRaise = 2
    /\ MeetsCondition(seen.outs[1])
    /\ Len(seen.user_info_list) = 1
    /\ pc = "publish"

\* the interactions of the first k entries of list, counted
RECURSIVE CountInteractions(_, _)
CountInteractions(list, k) ==
    IF k = 0 THEN 0 ELSE CountInteractions(list, k - 1) + Len(list[k].user_info)

\* C8: format_user_info_to_flattened_json returns one row per interaction,
\* sum(len(interactions)) rows in all, in input order across the entries and
\* within each entry, each row carrying the URL of its entry (and the
\* username and post type of its interaction).
C8_OneRowPerInteraction ==
    seen.stage = "extract" =>
        LET list == seen.user_info_list
        IN  /\ Len(flattened_data) = CountInteractions(list, Len(list))
            /\ \A k \in 1..Len(list) : \A j \in 1..Len(list[k].user_info) :
                 LET row == flattened_data[CountInteractions(list, k - 1) + j]
                 IN  /\ DOMAIN row = {Headers[h] : h \in 1..Len(Headers)}
                     /\ row["Website URL"] = list[k].website_url
                     /\ row["Username"] = list[k].user_info[j].username
                     /\ row["Post Type"] = list[k].user_info[j].post_type

\* two entries, the first with several interactions, flattened
C8_Witness ==
    /\ seen.stage = "extract"
    /\ Len(seen.user_info_list) = 2
    /\ Len(seen.user_info_list[1].user_info) = MaxInteractions
    /\ Len(seen.user_info_list[2].user_info) = 1
    /\ Len(flattened_data) = MaxInteractions + 1
    /\ flattened_data[MaxInteractions + 1]["Website URL"] = Url(2)

\* the text of the model's answer ("" when it has none)
AnswerText == IF seen.llm.kind = "text" THEN seen.llm.text ELSE <<>>

\* C9: the string transform_with_gemini returns has at most 8
\* whitespace-separated tokens: an answer of more than 8 tokens is cut to its
\* first 8 tokens, in order, and a shorter one comes back unchanged apart from
\* its outer whitespace.
C9_AtMostEightTokens ==
    (CalledModel /\ seen.llm.kind # "raise") =>
        \E n \in WordCounts :
            /\ AnswerText \in {TextTight(n), TextWide(n)}
            /\ Len(SplitWhitespace(concise)) <= MaxShortTokens
            /\ IF n > MaxShortTokens
               THEN concise = TextTight(MaxShortTokens)
               ELSE /\ SplitWhitespace(concise) = Words(n)
                    /\ \E a, b \in 0..Len(AnswerText) :
                         /\ AnswerText = SubSeq(AnswerText, 1, a) \o concise
                                           \o SubSeq(AnswerText, Len(AnswerText) - b + 1,
                                                     Len(AnswerText))
                         /\ \A i \in (1..a) \cup ((Len(AnswerText) - b + 1)..Len(AnswerText)) :
                              AnswerText[i] \in Whitespace

\* an answer of more than 8 words with extra whitespace was cut to its first 8
C9_Witness ==
    /\ CalledModel
    /\ pc = "search"
    /\ seen.llm.text = TextWide(MaxShortTokens + 1)
    /\ concise = TextTight(MaxShortTokens)

\* the toolkit has a convention that can carry a payload
CanSend(tk) ==
    \/ tk.has \cap {"run", "run_action", "invoke", "execute"} # {}
    \/ "tools" \in tk.has /\ ScanTools(tk.tools) # 0

\* C10: write_to_google_sheets_via_composio tries the payload variants
\* title+data, title+rows, title+json, data in that order, each one actually
\* sent to the integration, until one yields a non-empty result, and sends no
\* variant after that one, whichever convention the toolkit has and also after
\* a variant that returned an empty result that is not None.
C10_EveryVariantSentUntilResult ==
    CanSend(toolkit) =>
        /\ \A p \in 1..Len(sent.keys) : sent.keys[p] = PayloadOptions[p]
        /\ sent.keys # <<>> => sent.via # <<>>
        /\ (pc = "done" /\ sent.keys # <<>>)
             => (Truthy(result) \/ Len(sent.keys) = Len(PayloadOptions))
        /\ pc = "publish_loop" => ~Truthy(result)

(* ---- C11 ---- *)
\* the decoy is a sheet identifier or URL-bearing field of a mapping that
\* encloses the sought one
EnclosingOwnField(sh) ==
    /\ sh.decoy \in {"url", "bare_url", "alt_id"}
    /\ sh.level >= 1
    /\ sh.wrappers[sh.level] = "dict"

\* a decoy that yields a URL is visited before the sought mapping: it precedes
\* it (or the value that holds it) in an enclosing mapping or sequence
VisitedEarlier(sh) ==
    sh.decoy \notin {"none", "quoted"} /\ sh.level >= 1 /\ sh.side = "before"

SoughtUrl == TextOf(UrlPrefix \o S_abc123)

\* C11 as stated: whatever else the result object holds, the recovery returns
\* the URL built from the spreadsheetId "abc123" found at any depth.
C11_SoughtIdAlwaysWins ==
    pc = "parsed" => google_sheets_link = SoughtUrl

\* C11 (amended): the recovery returns the URL built from the spreadsheetId
\* "abc123" of a mapping at any depth of mappings and sequences, whatever
\* other fields that mapping itself holds (so the identifier is read before
\* the URL fields and the text searches) and whatever follows it, provided
\* that no enclosing mapping has an identifier or URL-bearing field of its
\* own and no value visited earlier yields a URL.
C11_SoughtIdWinsUnlessPreceded ==
    (pc = "parsed" /\ ~EnclosingOwnField(seen.shape) /\ ~VisitedEarlier(seen.shape))
        => google_sheets_link = SoughtUrl

\* the sought mapping lies MaxDepth deep, holds a URL-bearing field of its
\* own, and its identifier gave the URL
C11_Witness ==
    /\ pc = "parsed"
    /\ Len(seen.shape.wrappers) = MaxDepth
    /\ seen.shape.decoy = "url"
    /\ seen.shape.level = 0
    /\ google_sheets_link = SoughtUrl

(* ---- C12 ---- *)
\* the run got as far as extract_user_info_from_urls
ReachedExtraction == seen.stage \in {"extract", "publish"}
\* main called write_to_google_sheets_via_composio
PublisherInvoked == seen.stage = "publish"
CsvOffered == csv # NoCsv
\* the publisher got no result at all: the toolkit could not be fetched, or
\* every payload raised or came back empty
TotalIntegrationFailure == PublisherInvoked /\ ~Truthy(result)

\* C12: when a run that reached the extraction stage is over, the publisher
\* was invoked iff there are rows, and a CSV is offered iff there are rows and
\* no sheet URL; with no rows the page shows "no interactions found", no call
\* went to the integration and no CSV is offered; with N rows and a total
\* integration failure the CSV has the N rows under the 7 fixed headers.
C12_PublishIffRowsCsvIffNoLink ==
    (pc = "done" /\ ReachedExtraction) =>
        /\ PublisherInvoked <=> flattened_data # <<>>
        /\ CsvOffered <=> (google_sheets_link = "" /\ flattened_data # <<>>)
        /\ ("download_csv" \in ui) <=> CsvOffered
        /\ flattened_data = <<>> =>
              /\ "no_interactions_found" \in ui
              /\ sent = NothingSent /\ toolkit = NoToolkit
              /\ ~CsvOffered
        /\ (flattened_data # <<>> /\ TotalIntegrationFailure) =>
              /\ csv.rows = flattened_data
              /\ csv.header = Headers
              /\ Len(csv.header) = 7

\* two rows, every payload variant tried in vain, and the CSV of two rows offered
C12_Witness ==
    /\ pc = "done"
    /\ Len(flattened_data) = 2
    /\ Len(sent.keys) = Len(PayloadOptions)
    /\ TotalIntegrationFailure
    /\ Len(csv.rows) = 2
    /\ "download_csv" \in ui

====
